---- MODULE Spec2Model ----
(***************************************************************************)
(* Account and session backend of bronya (src/app): the account routes,    *)
(* the Session / Account / Credentials models, the password helpers and    *)
(* the SurrealDB store they run against (tables "account" and "session",   *)
(* and the delete_sessions event of db.py).                                *)
(*                                                                         *)
(* Spec handles one request at a time: every route handler is one action,  *)
(* and its Response goes out before the next request is taken.  ConcSpec   *)
(* handles two requests at once, one step per database call of a handler;  *)
(* AccountSpec does the same for the requests that write account records.  *)
(* Time is the wall clock in seconds; the clock readings one handler takes  *)
(* fall in the same second.  Values drawn from the secrets module (keys,   *)
(* token nonces, salts) and the record ids the store hands out are taken   *)
(* from counters, i.e. they never repeat.  PyJWT rejects a token whose exp *)
(* is not after the current time, or whose iat is in the future.  How the  *)
(* store compares two absent values in a WHERE clause is not fixed by the  *)
(* source: noneEq holds either answer.  In Spec a create or upsert whose    *)
(* answer the handler tests may come back without a record (StoreAnswers); *)
(* the concurrent steps run against a store that answers every write.      *)
(***************************************************************************)
EXTENDS Integers, FiniteSets, Sequences, TLC

\* ---------------------------------------------------------------- bounds
MaxAccounts == 2      \* account records ever created
MaxKeys == 2          \* session keys ever generated
MaxTokens == 3        \* tokens ever issued
MaxTicks == 1         \* clock advances
MaxConcTokens == 2    \* tokens ever issued while requests run concurrently

\* ------------------------------------------------------- request inputs
None == "None"
Usernames == {"alice01", "bob02"}
Passwords == {"longpassword1"}
\* what a login may send: a registered password or one nobody registered
LoginPasswords == Passwords \cup {"wrongpassword9"}
Emails == {"a@example.com"}
Phones == {"+15550001"}
Devices == {"d1", "d2"}
Identities == Usernames \cup Emails

\* timedelta(days=30).total_seconds()
TokenTTL == 2592000
\* the clock advances by a second, by a whole token lifetime, or by more
TickSteps == {1, TokenTTL, TokenTTL + 1}

\* a key no session holds (the signing key of a client forging a token)
ForeignKey == 0
\* user_id of a credential naming no account record
UnknownId == 0

VARIABLES
    accounts,     \* table account: record id -> account record
    sessions,     \* table session: device id -> session record
    now,          \* datetime.now().timestamp()
    nextId,       \* next account record id the store hands out
    nextKey,      \* next value of utils.generate_key
    nextNonce,    \* next value of secrets.token_hex
    nextSalt,     \* next value of utils.generate_salt
    ticks,        \* number of clock advances so far
    noneEq,       \* the store's answer to NONE = NONE inside a WHERE clause
    handed,       \* every UserToken a client received in a response
    response,     \* the Response of the request being answered, or Idle
    regPhone,     \* account record id -> the phone its register request carried
    calls         \* the requests in flight when several are handled at once

vars == <<accounts, sessions, now, nextId, nextKey, nextNonce, nextSalt,
          ticks, noneEq, handed, response, regPhone, calls>>
store == <<accounts, sessions>>
rnd == <<nextId, nextKey, nextNonce, nextSalt>>

\* ------------------------------------------------------------ security.py
HashPassword(password, salt) ==
    [alg |-> "argon2id", salt |-> salt, digest |-> <<password, salt>>]

\* a stored password string that is no argon2 hash
MalformedHash == [raw |-> "not-a-hash"]

IsArgon2Hash(hashed_password) == DOMAIN hashed_password = {"alg", "salt", "digest"}

\* pwd_hasher.verify(hashed_password, password): "ok", or the exception argon2
\* raises (VerifyMismatchError for a wrong password, InvalidHashError for a
\* string that is no hash)
HasherVerify(hashed_password, password) ==
    IF ~IsArgon2Hash(hashed_password)
    THEN "InvalidHashError"
    ELSE IF hashed_password.digest = <<password, hashed_password.salt>>
    THEN "ok"
    ELSE "VerifyMismatchError"

\* verify_password that reports every password as correct
VerifyPasswordOutcome_AlwaysTrue(password, hashed_password) == "True"

\* what verify_password does: the value it returns, or the exception that
\* leaves it (the try catches VerifyMismatchError only)
VerifyPasswordOutcome(password, hashed_password) ==
    LET result == HasherVerify(hashed_password, password)
    IN IF result = "ok"
       THEN "True"
       ELSE IF result = "VerifyMismatchError"
       THEN "False"
       ELSE result

VerifyPassword(password, hashed_password) ==
    VerifyPasswordOutcome(password, hashed_password) = "True"

\* ------------------------------------------------------------- the token
\* jwt.encode(payload, key, "HS256"): the payload with its HMAC under key
Sign(payload, key) == [p |-> payload, k |-> key]

JwtEncode(payload, key) == [payload |-> payload, sig |-> Sign(payload, key)]

JwtPayload(account_id, random_part, device_id, iat, exp) ==
    [account_id |-> account_id, random_part |-> random_part,
     device_id |-> device_id, iat |-> iat, exp |-> exp]

\* a string that is no JWT at all
Malformed == [raw |-> "garbage"]

IsWellFormed(token) == DOMAIN token = {"payload", "sig"}

\* jwt.decode that skips the signature
JwtDecodes_NoSignature(token, key, time) ==
    /\ IsWellFormed(token)
    /\ ~(token.payload.exp <= time)
    /\ ~(token.payload.iat > time)

\* jwt.decode(token, key, algorithms=["HS256"]) returns without raising
JwtDecodes(token, key, time) ==
    /\ IsWellFormed(token)
    /\ token.sig = Sign(token.payload, key)
    /\ ~(token.payload.exp <= time)
    /\ ~(token.payload.iat > time)

\* ------------------------------------------------------------- session.py
GenerateToken(account, device_id, key, nonce, time) ==
    JwtEncode(JwtPayload(account, nonce, device_id, time, time + TokenTTL), key)

\* is_valid_token that lets an expired token through
IsValidToken_NoExpiry(session, token) ==
    /\ IsWellFormed(token)
    /\ token.sig = Sign(token.payload, session.key)

IsValidToken(session, token) == JwtDecodes(token, session.key, now)

\* generate that derives the key from the account instead of drawing it
Generate_AccountKey(account, device_id, key, nonce, time) ==
    [account |-> account,
     key |-> account,
     token |-> GenerateToken(account, device_id, account, nonce, time),
     created_at |-> time,
     updated_at |-> time]

Generate(account, device_id, key, nonce, time) ==
    [account |-> account,
     key |-> key,
     token |-> GenerateToken(account, device_id, key, nonce, time),
     created_at |-> time,
     updated_at |-> time]

\* refresh that also rotates the key
Refresh_RotateKey(session, device_id, nonce, time) ==
    [session EXCEPT
        !.key = session.key + 100,
        !.token = GenerateToken(session.account, device_id, session.key + 100,
                                nonce, time)]

\* refresh that does not assign the new token
Refresh_StaleToken(session, device_id, nonce, time) == session

\* Session.refresh of the session stored for device_id
Refresh(session, device_id, nonce, time) ==
    [session EXCEPT
        !.token = GenerateToken(session.account, device_id, session.key, nonce, time)]

\* Session.save_on: upsert of the whole record under its id
SessionSaveOn(tbl, device_id, session, time) ==
    [d \in DOMAIN tbl \cup {device_id} |->
        IF d = device_id THEN [session EXCEPT !.updated_at = time] ELSE tbl[d]]

\* refresh_and_save_on that updates the record but does not create one
RefreshAndSaveOn_UpdateOnly(tbl, session, device_id, nonce, time) ==
    IF device_id \in DOMAIN tbl
    THEN SessionSaveOn(tbl, device_id, Refresh(session, device_id, nonce, time), time)
    ELSE tbl

\* Session.refresh_and_save_on of the session read for device_id
RefreshAndSaveOn(tbl, session, device_id, nonce, time) ==
    SessionSaveOn(tbl, device_id, Refresh(session, device_id, nonce, time), time)

\* delete_on that deletes every session of the session's account
SessionDeleteOn_WholeAccount(tbl, device_id) ==
    [d \in {e \in DOMAIN tbl : device_id \notin DOMAIN tbl
                                \/ tbl[e].account # tbl[device_id].account} |-> tbl[d]]

\* delete_on that deletes nothing
SessionDeleteOn_Noop(tbl, device_id) == tbl

SessionDeleteOn(tbl, device_id) ==
    [d \in DOMAIN tbl \ {device_id} |-> tbl[d]]

\* ------------------------------------------------------------- account.py
EmptyProfile ==
    [avatar |-> None, bio |-> None, phone |-> None,
     location |-> None, website |-> None, github |-> None]

Profiles ==
    {EmptyProfile,
     [EmptyProfile EXCEPT !.phone = "+15550001", !.website = "x.io"]}

IntoAccount(username, password, email, salt, time) ==
    [username |-> username,
     password |-> HashPassword(password, salt),
     email |-> email,
     profile |-> EmptyProfile,
     rating |-> 0,
     credit_score |-> 60,
     is_admin |-> FALSE,
     is_active |-> TRUE,
     created_at |-> time,
     updated_at |-> time]

\* a = $b inside a WHERE clause
DbEq(a, b) == IF a = None /\ b = None THEN noneEq ELSE a = b

\* the account table has no top-level phone field
AccountPhone(account) == None

HasConflictOn(username, email, phone) ==
    \E id \in DOMAIN accounts :
        \/ DbEq(accounts[id].username, username)
        \/ DbEq(accounts[id].email, email)
        \/ DbEq(AccountPhone(accounts[id]), phone)

\* ids of the rows of SELECT * FROM account WHERE username = $i OR email = $i
IdentityRows(identity) ==
    {id \in DOMAIN accounts :
        DbEq(accounts[id].username, identity) \/ DbEq(accounts[id].email, identity)}

\* a create that refuses a username some stored account already has
AccountSaveOn_UniqueUsername(tbl, id, account, time) ==
    IF \E i \in DOMAIN tbl \ {id} : tbl[i].username = account.username
    THEN tbl
    ELSE [i \in DOMAIN tbl \cup {id} |->
            IF i = id THEN [account EXCEPT !.updated_at = time] ELSE tbl[i]]

\* save_on that merges the profile into the stored one, field by field
AccountSaveOn_MergeProfile(tbl, id, account, time) ==
    [i \in DOMAIN tbl \cup {id} |->
        IF i # id
        THEN tbl[i]
        ELSE IF id \notin DOMAIN tbl
        THEN [account EXCEPT !.updated_at = time]
        ELSE [account EXCEPT
                !.updated_at = time,
                !.profile = [f \in DOMAIN account.profile |->
                                IF account.profile[f] = None
                                THEN tbl[id].profile[f]
                                ELSE account.profile[f]]]]

\* Account.save_on of a record that has an id
AccountSaveOn(tbl, id, account, time) ==
    [i \in DOMAIN tbl \cup {id} |->
        IF i = id THEN [account EXCEPT !.updated_at = time] ELSE tbl[i]]

\* account deletion without the delete_sessions event
AccountDeleteOn_NoCascade(id) ==
    /\ accounts' = [i \in DOMAIN accounts \ {id} |-> accounts[i]]
    /\ sessions' = sessions

\* db.delete(account id) followed by the delete_sessions event
AccountDeleteOn(id) ==
    /\ accounts' = [i \in DOMAIN accounts \ {id} |-> accounts[i]]
    /\ sessions' = [d \in {e \in DOMAIN sessions : sessions[e].account # id} |->
                        sessions[d]]

\* what the store answers to a create or an upsert whose answer the handler
\* tests: TRUE for the record it wrote, FALSE for no record, and then it wrote
\* nothing
StoreAnswers == BOOLEAN

Credentials(user_id, username, token, device_id) ==
    [user_id |-> user_id, username |-> username,
     token |-> token, device_id |-> device_id]

\* is_valid_on that does not compare the session's account
IsValidOn_NoAccountCheck(credentials) ==
    IF credentials.device_id \notin DOMAIN sessions
    THEN FALSE
    ELSE IsValidToken(sessions[credentials.device_id], credentials.token)

IsValidOn(credentials) ==
    IF credentials.device_id \notin DOMAIN sessions
    THEN FALSE
    ELSE /\ sessions[credentials.device_id].account = credentials.user_id
         /\ IsValidToken(sessions[credentials.device_id], credentials.token)

\* ------------------------------------------------------ what a client sends
\* a handed token whose expiry was pushed back without re-signing it
Tamper(token) ==
    [token EXCEPT !.payload.exp = token.payload.exp + TokenTTL]

\* a handed token's payload signed with a key of the client's own
Forge(token) == JwtEncode(token.payload, ForeignKey)

HandedTokens == {h.token : h \in handed}

ClientTokens ==
    HandedTokens \cup {Tamper(t) : t \in HandedTokens}
                 \cup {Forge(t) : t \in HandedTokens} \cup {Malformed}

ClientIds == {UnknownId} \cup (1 .. (nextId - 1))

\* every credential a client can put together
AllCreds ==
    {Credentials(u, n, t, d) :
        u \in ClientIds, n \in Usernames, t \in ClientTokens, d \in Devices}

\* the tokens the session records hold at the moment
StoredTokens == {sessions[d].token : d \in DOMAIN sessions}

\* a handed UserToken with its token replaced by a bad one
BadTokenCreds(h) ==
    {Credentials(h.user_id, h.username, t, h.token.payload.device_id) :
        t \in {Tamper(h.token), Forge(h.token), Malformed}}

\* the credentials the requests of the model carry: a handed UserToken sent
\* from either device, sent under another user_id, or sent with the stored
\* token of its device replaced by a bad one
SentCreds ==
    {Credentials(h.user_id, h.username, h.token, d) : h \in handed, d \in Devices}
    \cup {Credentials(u, h.username, h.token, h.token.payload.device_id) :
            h \in handed, u \in ClientIds}
    \cup UNION {BadTokenCreds(h) : h \in {g \in handed : g.token \in StoredTokens}}

\* ------------------------------------------------------------- responses
NoData == [none |-> TRUE]

\* no request is being answered
Idle == [idle |-> TRUE]

Response(message, data, code) ==
    [message |-> message, data |-> data, code |-> code]

\* what the client gets when an exception leaves a handler: no envelope, the
\* framework's HTTP 500
Unhandled == Response("Internal Server Error", NoData, 500)

UserToken(user_id, username, token) ==
    [user_id |-> user_id, username |-> username, token |-> token]

\* the requests that can be in flight at once
Slots == {1, 2}

\* ------------------------------------------------------------------ Init
Init ==
    /\ accounts = << >>
    /\ sessions = << >>
    /\ now = 0
    /\ nextId = 1
    /\ nextKey = 1
    /\ nextNonce = 1
    /\ nextSalt = 1
    /\ ticks = 0
    /\ noneEq \in BOOLEAN
    /\ handed = {}
    /\ response = Idle
    /\ regPhone = << >>
    /\ calls = [s \in Slots |-> Idle]

\* --------------------------------------------------------------- routes
Register(username, password, phone, email, device_id) ==
    /\ response = Idle
    /\ (phone = None) # (email = None)
    /\ IF HasConflictOn(username, email, phone)
       THEN /\ response' = Response("Account already exists.", NoData, 4)
            /\ UNCHANGED <<store, rnd>>
       ELSE \E account_saved \in StoreAnswers, session_saved \in StoreAnswers :
            IF ~account_saved
            THEN /\ response' = Response("Failed to create account.", NoData, 5)
                 /\ UNCHANGED <<store, rnd>>
            ELSE /\ nextId <= MaxAccounts
                 /\ nextKey <= MaxKeys
                 /\ nextNonce <= MaxTokens
                 /\ LET account == IntoAccount(username, password, email, nextSalt, now)
                        session == Generate(nextId, device_id, nextKey, nextNonce, now)
                        data == UserToken(nextId, username, session.token)
                    IN /\ accounts' = AccountSaveOn(accounts, nextId, account, now)
                       /\ IF ~session_saved
                          THEN /\ response' = Response("Failed to create session.",
                                                       NoData, 5)
                               /\ UNCHANGED sessions
                          ELSE /\ sessions' = SessionSaveOn(sessions, device_id,
                                                            session, now)
                               /\ response' = Response("Account created successfully.",
                                                       data, 0)
                 /\ nextId' = nextId + 1
                 /\ nextKey' = nextKey + 1
                 /\ nextNonce' = nextNonce + 1
                 /\ nextSalt' = nextSalt + 1
    /\ regPhone' = [i \in DOMAIN accounts' |->
                        IF i \in DOMAIN regPhone THEN regPhone[i] ELSE phone]
    /\ UNCHANGED <<now, ticks, noneEq, handed, calls>>

Login(identity, password, device_id) ==
    /\ response = Idle
    /\ LET rows == IdentityRows(identity)
       IN IF Cardinality(rows) # 1
          THEN /\ response' = Response("Account not found.", NoData, 4)
               /\ UNCHANGED <<store, rnd>>
          ELSE LET id == CHOOSE i \in rows : TRUE
                   account == accounts[id]
               IN IF VerifyPasswordOutcome(password, account.password)
                        \notin {"True", "False"}
                  THEN /\ response' = Unhandled
                       /\ UNCHANGED <<store, rnd>>
                  ELSE IF ~VerifyPassword(password, account.password)
                  THEN /\ response' = Response("Invalid password.", NoData, 2)
                       /\ UNCHANGED <<store, rnd>>
                  ELSE IF device_id \in DOMAIN sessions
                  THEN /\ nextNonce <= MaxTokens
                       /\ LET session == Refresh(sessions[device_id], device_id,
                                                 nextNonce, now)
                              data == UserToken(id, account.username, session.token)
                          IN /\ sessions' = RefreshAndSaveOn(sessions, sessions[device_id],
                                                             device_id, nextNonce, now)
                             /\ response' = Response("Logged in successfully.", data, 0)
                       /\ nextNonce' = nextNonce + 1
                       /\ UNCHANGED <<accounts, nextId, nextKey, nextSalt>>
                  ELSE \E session_saved \in StoreAnswers :
                       IF ~session_saved
                       THEN /\ response' = Response("Failed to create or update session.",
                                                    NoData, 5)
                            /\ UNCHANGED <<store, rnd>>
                       ELSE /\ nextKey <= MaxKeys
                            /\ nextNonce <= MaxTokens
                            /\ LET session == Generate(id, device_id, nextKey,
                                                       nextNonce, now)
                                   data == UserToken(id, account.username, session.token)
                               IN /\ sessions' = SessionSaveOn(sessions, device_id,
                                                               session, now)
                                  /\ response' = Response("Logged in successfully.",
                                                          data, 0)
                            /\ nextKey' = nextKey + 1
                            /\ nextNonce' = nextNonce + 1
                            /\ UNCHANGED <<accounts, nextId, nextSalt>>
    /\ UNCHANGED <<now, ticks, noneEq, handed, regPhone, calls>>

DeleteAccount(credentials) ==
    /\ response = Idle
    /\ IF ~IsValidOn(credentials)
       THEN /\ response' = Response("Invalid credentials.", NoData, 2)
            /\ UNCHANGED store
       ELSE IF credentials.user_id \notin DOMAIN accounts
       THEN /\ response' = Response("Account not found.", NoData, 4)
            /\ UNCHANGED store
       ELSE /\ AccountDeleteOn(credentials.user_id)
            /\ response' = Response("Account deleted successfully.", NoData, 0)
    /\ regPhone' = [i \in DOMAIN accounts' |-> regPhone[i]]
    /\ UNCHANGED <<now, ticks, noneEq, rnd, handed, calls>>

\* update_profile without the is_valid_on gate
UpdateProfile_NoGate(credentials, profile) ==
    /\ response = Idle
    /\ IF credentials.user_id \notin DOMAIN accounts
       THEN /\ response' = Response("Account not found.", NoData, 4)
            /\ UNCHANGED store
       ELSE LET account == [accounts[credentials.user_id] EXCEPT !.profile = profile]
            IN /\ accounts' = AccountSaveOn(accounts, credentials.user_id, account, now)
               /\ response' = Response("Profile updated successfully.",
                                       accounts'[credentials.user_id].profile, 0)
               /\ UNCHANGED sessions
    /\ UNCHANGED <<now, ticks, noneEq, rnd, handed, regPhone, calls>>

UpdateProfile(credentials, profile) ==
    /\ response = Idle
    /\ IF ~IsValidOn(credentials)
       THEN /\ response' = Response("Invalid credentials.", NoData, 2)
            /\ UNCHANGED store
       ELSE IF credentials.user_id \notin DOMAIN accounts
       THEN /\ response' = Response("Account not found.", NoData, 4)
            /\ UNCHANGED store
       ELSE \E account_saved \in StoreAnswers :
            IF ~account_saved
            THEN /\ response' = Response("Failed to update profile.", NoData, 5)
                 /\ UNCHANGED store
            ELSE LET account == [accounts[credentials.user_id] EXCEPT
                                    !.profile = profile]
                 IN /\ accounts' = AccountSaveOn(accounts, credentials.user_id,
                                                 account, now)
                    /\ response' = Response("Profile updated successfully.",
                                            accounts'[credentials.user_id].profile, 0)
                    /\ UNCHANGED sessions
    /\ UNCHANGED <<now, ticks, noneEq, rnd, handed, regPhone, calls>>

Logout(credentials) ==
    /\ response = Idle
    /\ IF ~IsValidOn(credentials)
       THEN /\ response' = Response("Invalid credentials.", NoData, 2)
            /\ UNCHANGED store
       ELSE IF credentials.device_id \notin DOMAIN sessions
       THEN /\ response' = Response("Session not found.", NoData, 4)
            /\ UNCHANGED store
       ELSE /\ sessions' = SessionDeleteOn(sessions, credentials.device_id)
            /\ response' = Response("Logged out successfully.", NoData, 0)
            /\ UNCHANGED accounts
    /\ UNCHANGED <<now, ticks, noneEq, rnd, handed, regPhone, calls>>

\* the response goes out to the client, who keeps the UserToken it carries
Reply ==
    /\ response # Idle
    /\ handed' = IF response.code = 0 /\ DOMAIN response.data = DOMAIN UserToken(0, 0, 0)
                  THEN handed \cup {response.data}
                  ELSE handed
    /\ response' = Idle
    /\ UNCHANGED <<store, rnd, now, ticks, noneEq, regPhone, calls>>

\* the wall clock moves on between two requests
Tick ==
    /\ response = Idle
    /\ ticks < MaxTicks
    /\ \E step \in TickSteps : now' = now + step
    /\ ticks' = ticks + 1
    /\ UNCHANGED <<store, rnd, noneEq, handed, response, regPhone, calls>>

DoRegister ==
    \E username \in Usernames, password \in Passwords,
       phone \in Phones \cup {None}, email \in Emails \cup {None},
       device_id \in Devices :
        Register(username, password, phone, email, device_id)

DoLogin ==
    \E identity \in Identities, password \in LoginPasswords, device_id \in Devices :
        Login(identity, password, device_id)

DoDeleteAccount == \E credentials \in SentCreds : DeleteAccount(credentials)

DoUpdateProfile ==
    \E credentials \in SentCreds, profile \in Profiles :
        UpdateProfile(credentials, profile)

DoLogout == \E credentials \in SentCreds : Logout(credentials)

Next ==
    \/ DoRegister
    \/ DoLogin
    \/ DoDeleteAccount
    \/ DoUpdateProfile
    \/ DoLogout
    \/ Reply
    \/ Tick

Spec == Init /\ [][Next]_vars

\* ====================================================== concurrent requests
\* ConcSpec handles up to two requests at once.  Every handler is an
\* asynchronous task that gives way at each await, so each database call of
\* a handler is one step, and steps of different requests interleave; the
\* store runs each call atomically (the delete_sessions event runs within the
\* delete that fires it).  The clock stands still here, and the requests carry
\* credentials as the server handed them out.

\* a request in flight: its handler, the await it resumes from, its body, the
\* account and session it has read, and its Response once it has returned
Call(op, pc, data, account, session, result) ==
    [op |-> op, pc |-> pc, data |-> data, account |-> account,
     session |-> session, result |-> result]

\* the call has returned; what it read is gone, and of a refused request only
\* the handler and the Response are left
Returned(call, result) ==
    IF result.code = 0
    THEN Call(call.op, "done", call.data, NoData, NoData, result)
    ELSE Call(call.op, "done", NoData, NoData, NoData, result)

\* the sequential variables, which ConcSpec leaves alone
seq == <<now, ticks, noneEq, response>>

RegisterBody(username, password, phone, email, device_id) ==
    [username |-> username, password |-> password, phone |-> phone,
     email |-> email, device_id |-> device_id]

LoginBody(identity, password, device_id) ==
    [identity |-> identity, password |-> password, device_id |-> device_id]

\* -- register
RegisterCheck(s, username, password, phone, email, device_id) ==
    /\ calls[s] = Idle
    /\ (phone = None) # (email = None)
    /\ LET call == Call("register", "save_account",
                        RegisterBody(username, password, phone, email, device_id),
                        NoData, NoData, NoData)
       IN calls' = [calls EXCEPT ![s] =
            IF HasConflictOn(username, email, phone)
            THEN Returned(call, Response("Account already exists.", NoData, 4))
            ELSE call]
    /\ UNCHANGED <<store, rnd, handed, regPhone, seq>>

RegisterSaveAccount(s) ==
    /\ calls[s] # Idle
    /\ calls[s].op = "register"
    /\ calls[s].pc = "save_account"
    /\ nextId <= MaxAccounts
    /\ LET data == calls[s].data
           account == IntoAccount(data.username, data.password, data.email,
                                  nextSalt, now)
       IN /\ accounts' = AccountSaveOn(accounts, nextId, account, now)
          /\ regPhone' = [i \in DOMAIN accounts' |->
                            IF i \in DOMAIN regPhone THEN regPhone[i] ELSE data.phone]
          /\ calls' = [calls EXCEPT ![s] =
                [@ EXCEPT !.pc = "save_session",
                          !.account = [id |-> nextId, username |-> data.username]]]
    /\ nextId' = nextId + 1
    /\ nextSalt' = nextSalt + 1
    /\ UNCHANGED <<sessions, nextKey, nextNonce, handed, seq>>

RegisterSaveSession(s) ==
    /\ calls[s] # Idle
    /\ calls[s].op = "register"
    /\ calls[s].pc = "save_session"
    /\ nextKey <= MaxKeys
    /\ nextNonce <= MaxConcTokens
    /\ LET call == calls[s]
           session == Generate(call.account.id, call.data.device_id,
                               nextKey, nextNonce, now)
           data == UserToken(call.account.id, call.account.username, session.token)
       IN /\ sessions' = SessionSaveOn(sessions, call.data.device_id, session, now)
          /\ calls' = [calls EXCEPT ![s] =
                Returned(call, Response("Account created successfully.", data, 0))]
    /\ nextKey' = nextKey + 1
    /\ nextNonce' = nextNonce + 1
    /\ UNCHANGED <<accounts, nextId, nextSalt, handed, regPhone, seq>>

\* -- login
LoginGetAccount(s, identity, password, device_id) ==
    /\ calls[s] = Idle
    /\ LET rows == IdentityRows(identity)
           call == Call("login", "get_session",
                        LoginBody(identity, password, device_id),
                        NoData, NoData, NoData)
       IN calls' = [calls EXCEPT ![s] =
            IF Cardinality(rows) # 1
            THEN Returned(call, Response("Account not found.", NoData, 4))
            ELSE LET id == CHOOSE i \in rows : TRUE
                     outcome == VerifyPasswordOutcome(password, accounts[id].password)
                 IN IF outcome \notin {"True", "False"}
                    THEN Returned(call, Unhandled)
                    ELSE IF outcome = "False"
                    THEN Returned(call, Response("Invalid password.", NoData, 2))
                    ELSE [call EXCEPT !.account =
                            [id |-> id, username |-> accounts[id].username]]]
    /\ UNCHANGED <<store, rnd, handed, regPhone, seq>>

LoginGetSession(s) ==
    /\ calls[s] # Idle
    /\ calls[s].op = "login"
    /\ calls[s].pc = "get_session"
    /\ LET device_id == calls[s].data.device_id
       IN calls' = [calls EXCEPT ![s] =
            [@ EXCEPT !.pc = "save_session",
                      !.session = IF device_id \in DOMAIN sessions
                                  THEN sessions[device_id]
                                  ELSE NoData]]
    /\ UNCHANGED <<store, rnd, handed, regPhone, seq>>

LoginSaveSession(s) ==
    /\ calls[s] # Idle
    /\ calls[s].op = "login"
    /\ calls[s].pc = "save_session"
    /\ nextNonce <= MaxConcTokens
    /\ LET call == calls[s]
           device_id == call.data.device_id
       IN IF call.session # NoData
          THEN LET session == Refresh(call.session, device_id, nextNonce, now)
                   data == UserToken(call.account.id, call.account.username,
                                     session.token)
               IN /\ sessions' = RefreshAndSaveOn(sessions, call.session, device_id,
                                                  nextNonce, now)
                  /\ calls' = [calls EXCEPT ![s] =
                        Returned(call, Response("Logged in successfully.", data, 0))]
                  /\ UNCHANGED nextKey
          ELSE /\ nextKey <= MaxKeys
               /\ LET session == Generate(call.account.id, device_id,
                                          nextKey, nextNonce, now)
                      data == UserToken(call.account.id, call.account.username,
                                        session.token)
                  IN /\ sessions' = SessionSaveOn(sessions, device_id, session, now)
                     /\ calls' = [calls EXCEPT ![s] =
                           Returned(call, Response("Logged in successfully.", data, 0))]
               /\ nextKey' = nextKey + 1
    /\ nextNonce' = nextNonce + 1
    /\ UNCHANGED <<accounts, nextId, nextSalt, handed, regPhone, seq>>

\* -- delete_account
DeleteAccountCheck(s, credentials) ==
    /\ calls[s] = Idle
    /\ LET call == Call("delete_account", "get_account", credentials,
                        NoData, NoData, NoData)
       IN calls' = [calls EXCEPT ![s] =
            IF ~IsValidOn(credentials)
            THEN Returned(call, Response("Invalid credentials.", NoData, 2))
            ELSE call]
    /\ UNCHANGED <<store, rnd, handed, regPhone, seq>>

DeleteAccountGet(s) ==
    /\ calls[s] # Idle
    /\ calls[s].op = "delete_account"
    /\ calls[s].pc = "get_account"
    /\ LET id == calls[s].data.user_id
       IN calls' = [calls EXCEPT ![s] =
            IF id \notin DOMAIN accounts
            THEN Returned(@, Response("Account not found.", NoData, 4))
            ELSE [@ EXCEPT !.pc = "delete",
                           !.account = [id |-> id, username |-> accounts[id].username]]]
    /\ UNCHANGED <<store, rnd, handed, regPhone, seq>>

DeleteAccountDelete(s) ==
    /\ calls[s] # Idle
    /\ calls[s].op = "delete_account"
    /\ calls[s].pc = "delete"
    /\ LET id == calls[s].account.id
       IN IF id \notin DOMAIN accounts
          THEN /\ calls' = [calls EXCEPT ![s] =
                    Returned(@, Response("Failed to delete account.", NoData, 5))]
               /\ UNCHANGED store
          ELSE /\ AccountDeleteOn(id)
               /\ calls' = [calls EXCEPT ![s] =
                    Returned(@, Response("Account deleted successfully.", NoData, 0))]
    /\ regPhone' = [i \in DOMAIN accounts' |-> regPhone[i]]
    /\ UNCHANGED <<rnd, handed, seq>>

\* -- update_profile
UpdateProfileBody(credentials, profile) ==
    [credentials |-> credentials, profile |-> profile]

UpdateProfileCheck(s, credentials, profile) ==
    /\ calls[s] = Idle
    /\ LET call == Call("update_profile", "get_account",
                        UpdateProfileBody(credentials, profile),
                        NoData, NoData, NoData)
       IN calls' = [calls EXCEPT ![s] =
            IF ~IsValidOn(credentials)
            THEN Returned(call, Response("Invalid credentials.", NoData, 2))
            ELSE call]
    /\ UNCHANGED <<store, rnd, handed, regPhone, seq>>

\* Account.get_by_id: the handler keeps the record it read
UpdateProfileGet(s) ==
    /\ calls[s] # Idle
    /\ calls[s].op = "update_profile"
    /\ calls[s].pc = "get_account"
    /\ LET id == calls[s].data.credentials.user_id
       IN calls' = [calls EXCEPT ![s] =
            IF id \notin DOMAIN accounts
            THEN Returned(@, Response("Account not found.", NoData, 4))
            ELSE [@ EXCEPT !.pc = "save_account",
                           !.account = [id |-> id, record |-> accounts[id],
                                        phone |-> regPhone[id]]]]
    /\ UNCHANGED <<store, rnd, handed, regPhone, seq>>

\* account.profile = profile, then save_on: an upsert of the record read
UpdateProfileSave(s) ==
    /\ calls[s] # Idle
    /\ calls[s].op = "update_profile"
    /\ calls[s].pc = "save_account"
    /\ LET id == calls[s].account.id
           account == [calls[s].account.record EXCEPT
                            !.profile = calls[s].data.profile]
       IN /\ accounts' = AccountSaveOn(accounts, id, account, now)
          /\ calls' = [calls EXCEPT ![s] =
                Returned(@, Response("Profile updated successfully.",
                                     accounts'[id].profile, 0))]
          /\ regPhone' = [i \in DOMAIN accounts' |->
                            IF i \in DOMAIN regPhone THEN regPhone[i]
                            ELSE calls[s].account.phone]
    /\ UNCHANGED <<sessions, rnd, handed, seq>>

\* -- logout
LogoutCheck(s, credentials) ==
    /\ calls[s] = Idle
    /\ LET call == Call("logout", "get_session", credentials,
                        NoData, NoData, NoData)
       IN calls' = [calls EXCEPT ![s] =
            IF ~IsValidOn(credentials)
            THEN Returned(call, Response("Invalid credentials.", NoData, 2))
            ELSE call]
    /\ UNCHANGED <<store, rnd, handed, regPhone, seq>>

LogoutGet(s) ==
    /\ calls[s] # Idle
    /\ calls[s].op = "logout"
    /\ calls[s].pc = "get_session"
    /\ LET device_id == calls[s].data.device_id
       IN calls' = [calls EXCEPT ![s] =
            IF device_id \notin DOMAIN sessions
            THEN Returned(@, Response("Session not found.", NoData, 4))
            ELSE [@ EXCEPT !.pc = "delete", !.session = sessions[device_id]]]
    /\ UNCHANGED <<store, rnd, handed, regPhone, seq>>

LogoutDelete(s) ==
    /\ calls[s] # Idle
    /\ calls[s].op = "logout"
    /\ calls[s].pc = "delete"
    /\ LET device_id == calls[s].data.device_id
       IN IF device_id \notin DOMAIN sessions
          THEN /\ calls' = [calls EXCEPT ![s] =
                    Returned(@, Response("Failed to logout.", NoData, 5))]
               /\ UNCHANGED sessions
          ELSE /\ sessions' = SessionDeleteOn(sessions, device_id)
               /\ calls' = [calls EXCEPT ![s] =
                    Returned(@, Response("Logged out successfully.", NoData, 0))]
    /\ UNCHANGED <<accounts, rnd, handed, regPhone, seq>>

\* the handler has returned: the response goes out and the task ends
Return(s) ==
    /\ calls[s] # Idle
    /\ calls[s].pc = "done"
    /\ LET result == calls[s].result
       IN handed' = IF result.code = 0 /\ DOMAIN result.data = DOMAIN UserToken(0, 0, 0)
                     THEN handed \cup {result.data}
                     ELSE handed
    /\ calls' = [calls EXCEPT ![s] = Idle]
    /\ UNCHANGED <<store, rnd, regPhone, seq>>

\* the credentials the concurrent requests carry: a handed UserToken sent
\* from the device it was issued for
HandedCreds ==
    {Credentials(h.user_id, h.username, h.token, h.token.payload.device_id) :
        h \in handed}

StartRegister(s) ==
    \E username \in Usernames, password \in Passwords,
       phone \in Phones \cup {None}, email \in Emails \cup {None},
       device_id \in Devices :
        RegisterCheck(s, username, password, phone, email, device_id)

StartLogin(s) ==
    \E identity \in Identities, password \in LoginPasswords, device_id \in Devices :
        LoginGetAccount(s, identity, password, device_id)

StartDeleteAccount(s) == \E credentials \in HandedCreds : DeleteAccountCheck(s, credentials)

StartUpdateProfile(s) ==
    \E credentials \in HandedCreds, profile \in Profiles :
        UpdateProfileCheck(s, credentials, profile)

StartLogout(s) == \E credentials \in HandedCreds : LogoutCheck(s, credentials)

ConcNext ==
    \E s \in Slots :
        \/ StartRegister(s)
        \/ RegisterSaveAccount(s)
        \/ RegisterSaveSession(s)
        \/ StartLogin(s)
        \/ LoginGetSession(s)
        \/ LoginSaveSession(s)
        \/ StartDeleteAccount(s)
        \/ DeleteAccountGet(s)
        \/ DeleteAccountDelete(s)
        \/ StartLogout(s)
        \/ LogoutGet(s)
        \/ LogoutDelete(s)
        \/ Return(s)

ConcSpec == Init /\ [][ConcNext]_vars

\* the concurrent requests that write account records: register,
\* delete_account and update_profile, one step per await (login and logout
\* write session records only)
AccountNext ==
    \E s \in Slots :
        \/ StartRegister(s)
        \/ RegisterSaveAccount(s)
        \/ RegisterSaveSession(s)
        \/ StartDeleteAccount(s)
        \/ DeleteAccountGet(s)
        \/ DeleteAccountDelete(s)
        \/ StartUpdateProfile(s)
        \/ UpdateProfileGet(s)
        \/ UpdateProfileSave(s)
        \/ Return(s)

AccountSpec == Init /\ [][AccountNext]_vars

\* ==================================================================== claims
\* token was handed out by the server and carries the signature of key
Genuine(token, key) == token \in HandedTokens /\ token.sig.k = key

\* C1: Credentials.is_valid_on is true exactly when a session record exists
\* under the credentials' device_id, that session's account is the
\* credentials' user_id, and the token validates against that session's key
\* (a token the server signed with that key, not yet expired); no session,
\* another account, a forged, altered, malformed or expired token give false.
C1_IsValidOnIffAllThree ==
    \A c \in AllCreds :
        IsValidOn(c) <=>
            \E d \in DOMAIN sessions :
                /\ d = c.device_id
                /\ sessions[d].account = c.user_id
                /\ Genuine(c.token, sessions[d].key)
                /\ now < c.token.payload.exp

C1_Witness ==
    \E d \in DOMAIN sessions, e \in Devices \ DOMAIN sessions :
        LET a == sessions[d].account
            k == sessions[d].key
        IN /\ \E t \in HandedTokens :
                /\ IsValidOn(Credentials(a, "alice01", t, d))
                /\ ~IsValidOn(Credentials(a, "alice01", t, e))
                /\ ~IsValidOn(Credentials(UnknownId, "alice01", t, d))
                /\ ~IsValidOn(Credentials(a, "alice01", Forge(t), d))
                /\ ~IsValidOn(Credentials(a, "alice01", Malformed, d))
           /\ \E t \in HandedTokens :
                /\ Genuine(t, k)
                /\ t.payload.exp <= now
                /\ ~IsValidOn(Credentials(a, "alice01", t, d))
                /\ ~IsValidOn(Credentials(a, "alice01", Tamper(t), d))

\* C2: for every account id, device id and key, a token made by
\* generate_token and checked at once by is_valid_token is accepted by a
\* session holding the same key and rejected by one holding any other key.
C2_IssueThenValidate ==
    \A a \in ClientIds, d \in Devices, k \in 1 .. MaxKeys :
        LET token == GenerateToken(a, d, k, nextNonce, now)
        IN /\ IsValidToken([key |-> k], token)
           /\ \A other \in (0 .. MaxKeys) \ {k} : ~IsValidToken([key |-> other], token)

C2_Witness ==
    \E h \in handed, d \in DOMAIN sessions, e \in DOMAIN sessions :
        /\ h.token.payload.iat = now
        /\ sessions[d].token = h.token
        /\ IsValidToken(sessions[d], h.token)
        /\ sessions[e].key # sessions[d].key
        /\ ~IsValidToken(sessions[e], h.token)

\* C3: a token is issued with expires_at = issue time + 30 days, and once the
\* clock has passed that expiry is_valid_token and is_valid_on reject it, even
\* though the session still exists and holds the key the token was signed with.
C3_ExpiredTokenRejected ==
    \A t \in HandedTokens :
        /\ t.payload.exp = t.payload.iat + 30 * 24 * 60 * 60
        /\ now > t.payload.exp =>
            /\ \A d \in DOMAIN sessions : ~IsValidToken(sessions[d], t)
            /\ \A u \in ClientIds, d \in Devices :
                    ~IsValidOn(Credentials(u, "alice01", t, d))

C3_Witness ==
    \E h \in handed, d \in DOMAIN sessions :
        /\ sessions[d].key = h.token.sig.k
        /\ sessions[d].account = h.user_id
        /\ h.token.payload.device_id = d
        /\ now > h.token.payload.exp
        /\ ~IsValidOn(Credentials(h.user_id, h.username, h.token, d))

\* a request was answered in this step with the success envelope
Answered(message) ==
    /\ response = Idle
    /\ response' # Idle
    /\ response'.code = 0
    /\ response'.message = message

\* C4: a login on a device that already has a session record refreshes it:
\* the record keeps its id (the device id), its owning account and its key, and
\* its token is replaced by a newly issued one, different from the previous
\* token and from every token handed out before, which the response returns.
C4_RefreshKeepsKeyChangesToken ==
    [][Answered("Logged in successfully.") =>
        \A i \in Identities, p \in LoginPasswords, d \in DOMAIN sessions :
            Login(i, p, d) =>
                /\ DOMAIN sessions' = DOMAIN sessions
                /\ sessions'[d].account = sessions[d].account
                /\ sessions'[d].key = sessions[d].key
                /\ sessions'[d].created_at = sessions[d].created_at
                /\ sessions'[d].token # sessions[d].token
                /\ sessions'[d].token \notin HandedTokens
                /\ sessions'[d].token = response'.data.token
                /\ IsValidToken(sessions'[d], sessions'[d].token)
                /\ \A e \in DOMAIN sessions \ {d} : sessions'[e] = sessions[e]]_vars

C4_Witness ==
    /\ response # Idle
    /\ response.code = 0
    /\ response.message = "Logged in successfully."
    /\ \E d \in DOMAIN sessions, h \in handed :
        /\ sessions[d].token = response.data.token
        /\ h.token # sessions[d].token
        /\ h.token.sig.k = sessions[d].key
        /\ h.token.payload.device_id = d

\* C5: while a session record for a device id exists, its key never changes,
\* whatever request is handled, a register on that device id included.
C5_KeyStableWhileRecordExists ==
    [][\A d \in DOMAIN sessions \cap DOMAIN sessions' :
            sessions'[d].key = sessions[d].key]_vars

\* ids of the accounts that were created and have been deleted since
DeletedIds == (1 .. (nextId - 1)) \ DOMAIN accounts

\* C6: once delete_account has succeeded for an account, no session record
\* references it (a lookup of any of its former sessions by device id finds
\* nothing of it) and no credential naming it passes is_valid_on, on any device.
C6_DeleteCascades ==
    \A a \in DeletedIds :
        /\ \A d \in DOMAIN sessions : sessions[d].account # a
        /\ \A n \in Usernames, t \in ClientTokens, d \in Devices :
                ~IsValidOn(Credentials(a, n, t, d))

C6_Witness ==
    /\ response # Idle
    /\ response.code = 0
    /\ response.message = "Account deleted successfully."
    /\ sessions = << >>
    /\ \E a \in DeletedIds :
        \A d \in Devices :
            \E h \in handed :
                /\ h.user_id = a
                /\ h.token.payload.account_id = a
                /\ h.token.payload.device_id = d

\* C7: a successful logout on device D removes D's session record, and from
\* then on no credential for D passes is_valid_on (the one that logged out and
\* every other token of that session included) for as long as D has no record;
\* a record for D appears again only by a successful register or login on D.
C7_LogoutInvalidates ==
    [][/\ Answered("Logged out successfully.") =>
            \A c \in SentCreds :
                Logout(c) =>
                    /\ c.device_id \notin DOMAIN sessions'
                    /\ \A c2 \in AllCreds :
                            c2.device_id = c.device_id => ~IsValidOn(c2)'
       /\ \A d \in Devices \ DOMAIN sessions :
            /\ \A u \in ClientIds, t \in ClientTokens :
                    ~IsValidOn(Credentials(u, "alice01", t, d))
            /\ d \in DOMAIN sessions' =>
                \/ /\ Answered("Account created successfully.")
                   /\ response'.data.token.payload.device_id = d
                \/ /\ Answered("Logged in successfully.")
                   /\ response'.data.token.payload.device_id = d]_vars

C7_Witness ==
    /\ response # Idle
    /\ response.code = 0
    /\ response.message = "Logged out successfully."
    /\ \E h \in handed :
        /\ h.token.payload.device_id \notin DOMAIN sessions
        /\ h.user_id \in DOMAIN accounts
        /\ now < h.token.payload.exp

Denied == Response("Invalid credentials.", NoData, 2)

\* C8: logout, delete_account and update_profile are gated by is_valid_on: a
\* request whose credentials fail is_valid_on is answered with the
\* permission-denied envelope (code 2) and changes no account and no session
\* record.  (Stated per step: a logout, delete_account or update_profile step
\* that answers otherwise or changes a record carried valid credentials.)
C8_ProtectedOpsGated ==
    [][(response = Idle /\ response' # Idle
            /\ ~(response' = Denied /\ UNCHANGED store)) =>
        \A c \in SentCreds :
            (Logout(c) \/ DeleteAccount(c) \/ \E p \in Profiles : UpdateProfile(c, p))
                => IsValidOn(c)]_vars

C8_Witness ==
    /\ response = Denied
    /\ DOMAIN sessions # {}
    /\ DOMAIN accounts # {}

\* C9: after every successful login the returned user_id and token, with the
\* device_id of the login, pass is_valid_on at once, whatever session record
\* the device had before.
C9_LoginCredentialsValid ==
    [][Answered("Logged in successfully.") =>
        \A i \in Identities, p \in LoginPasswords, d \in Devices :
            Login(i, p, d) =>
                \A c \in {Credentials(response'.data.user_id, response'.data.username,
                                      response'.data.token, d)} : IsValidOn(c)']_vars

\* C10: a token handed to a client that authenticated as one account never
\* passes is_valid_on together with the user_id of another account, on any
\* device.
C10_TokenBoundToAccount ==
    \A h \in handed, u \in ClientIds, d \in Devices :
        u # h.user_id => ~IsValidOn(Credentials(u, h.username, h.token, d))

\* C11: after a repeat login has refreshed a device's session, every token
\* issued before for that session that passed is_valid_token / is_valid_on
\* just before the refresh (so not expired) still passes just after it, the
\* key being unchanged; several tokens are valid for one session at a time.
C11_OldTokensSurviveRefresh ==
    [][Answered("Logged in successfully.") =>
        \A i \in Identities, p \in LoginPasswords, d \in DOMAIN sessions :
            Login(i, p, d) =>
                \A t \in HandedTokens :
                    /\ IsValidToken(sessions[d], t) => IsValidToken(sessions[d], t)'
                    /\ \A u \in ClientIds :
                            IsValidOn(Credentials(u, "alice01", t, d))
                                => IsValidOn(Credentials(u, "alice01", t, d))']_vars

C11_Witness ==
    /\ response = Idle
    /\ \E d \in DOMAIN sessions, g \in handed, h \in handed :
        /\ g.token # h.token
        /\ h.token = sessions[d].token
        /\ g.token.payload.iat < h.token.payload.iat
        /\ IsValidOn(Credentials(sessions[d].account, g.username, g.token, d))
        /\ IsValidOn(Credentials(sessions[d].account, h.username, h.token, d))

\* C12: sessions are keyed by device id: a device has at most one session
\* record, stored under its device id and holding a token issued for that
\* device; two records (of one account or of two) never hold the same key, and
\* a credential is_valid_on accepts for one device is not accepted for another.
C12_OneSessionPerDevice ==
    /\ DOMAIN sessions \subseteq Devices
    /\ \A d \in DOMAIN sessions :
        /\ sessions[d].token.payload.device_id = d
        /\ \A e \in DOMAIN sessions \ {d} :
            /\ sessions[e].key # sessions[d].key
            /\ ~IsValidToken(sessions[e], sessions[d].token)
            /\ \A t \in HandedTokens, u \in ClientIds :
                    IsValidOn(Credentials(u, "alice01", t, d))
                        => ~IsValidOn(Credentials(u, "alice01", t, e))

C12_Witness ==
    \E d \in DOMAIN sessions, e \in DOMAIN sessions, g \in handed, h \in handed :
        /\ d # e
        /\ sessions[d].account = sessions[e].account
        /\ sessions[d].account \in DOMAIN accounts
        /\ IsValidOn(Credentials(sessions[d].account, g.username, g.token, d))
        /\ IsValidOn(Credentials(sessions[e].account, h.username, h.token, e))

\* an account is stored under the username, the email or the phone of a request
Taken(username, email, phone) ==
    \E id \in DOMAIN accounts :
        \/ accounts[id].username = username
        \/ email # None /\ accounts[id].email = email
        \/ phone # None /\ regPhone[id] = phone

\* no two stored accounts share a username, an email or a phone
NoSharedIdentity ==
    \A a \in DOMAIN accounts : \A b \in DOMAIN accounts \ {a} :
        /\ accounts[a].username # accounts[b].username
        /\ accounts[a].email = None \/ accounts[a].email # accounts[b].email
        /\ regPhone[a] = None \/ regPhone[a] # regPhone[b]

KnownHashes ==
    {accounts[id].password : id \in DOMAIN accounts}
        \cup {HashPassword(q, nextSalt) : q \in Passwords}

\* C18: verify_password returns true for the password that was hashed, false
\* for any other password, and false, never an exception, when the stored
\* hash string is malformed.
C18_VerifyPasswordNeverRaises ==
    \A p \in LoginPasswords, h \in KnownHashes \cup {MalformedHash} :
        /\ VerifyPasswordOutcome(p, h) \in {"True", "False"}
        /\ IsArgon2Hash(h) =>
                (VerifyPasswordOutcome(p, h) = "True" <=> h.digest[1] = p)
        /\ ~IsArgon2Hash(h) => VerifyPasswordOutcome(p, h) = "False"

\* C17: every account record register creates has exactly one of email and
\* phone set: the one the request supplied is stored on the account (for the
\* phone: as a field of the record or in its profile), the other is unset.
C17_OneOfEmailPhoneStored ==
    [][Answered("Account created successfully.") =>
        \A u \in Usernames, p \in Passwords, ph \in Phones \cup {None},
           em \in Emails \cup {None}, d \in Devices :
            Register(u, p, ph, em, d) =>
                \A a \in {accounts'[response'.data.user_id]} :
                    /\ a.email = em
                    /\ ph \in {AccountPhone(a), a.profile.phone}
                    /\ (a.email = None)
                            # (AccountPhone(a) = None /\ a.profile.phone = None)]_vars

\* C19: a successful update_profile replaces the account's whole profile by
\* the profile of the request (a field the request leaves out becomes unset,
\* whatever it held), returns that profile, and leaves the account's id,
\* username, password hash and email, every other account and every session
\* record unchanged.
C19_UpdateProfileReplaces ==
    [][Answered("Profile updated successfully.") =>
        \A c \in SentCreds, pr \in Profiles :
            UpdateProfile(c, pr) =>
                /\ DOMAIN accounts' = DOMAIN accounts
                /\ accounts'[c.user_id].profile = pr
                /\ response'.data = pr
                /\ \A f \in {"username", "password", "email", "rating", "credit_score",
                              "is_admin", "is_active", "created_at"} :
                        accounts'[c.user_id][f] = accounts[c.user_id][f]
                /\ \A i \in DOMAIN accounts \ {c.user_id} : accounts'[i] = accounts[i]
                /\ sessions' = sessions]_vars

C19_Witness ==
    /\ response # Idle
    /\ response.code = 0
    /\ response.message = "Profile updated successfully."
    /\ response.data # EmptyProfile
    /\ \E id \in DOMAIN accounts :
        /\ accounts[id].profile = response.data
        /\ accounts[id].updated_at > accounts[id].created_at
        /\ \E d \in DOMAIN sessions : sessions[d].account = id

\* call s is at the await named pc and takes its step
Steps(s, op, pc) ==
    /\ calls[s] # Idle
    /\ calls[s].op = op
    /\ calls[s].pc = pc
    /\ calls'[s] # calls[s]

\* call s has returned from handler op with the success envelope
Succeeded(s, op) ==
    /\ calls[s] # Idle
    /\ calls[s].op = op
    /\ calls[s].pc = "done"
    /\ calls[s].result.code = 0

\* C14: register-if-absent is not atomic: a register request that has passed
\* has_conflict_on stores its account at its next step without another check,
\* whatever has been stored in between; so two concurrent register requests
\* with the same username can both pass the check and both succeed, leaving
\* two stored accounts with that username.
C14_RegisterIfAbsentNotAtomic ==
    [][\A s \in Slots :
        Steps(s, "register", "save_account") =>
            /\ nextId \in DOMAIN accounts' \ DOMAIN accounts
            /\ accounts'[nextId].username = calls[s].data.username
            /\ \A i \in DOMAIN accounts : accounts'[i] = accounts[i]
            /\ calls'[s].pc = "save_session"]_vars

C14_Witness ==
    \E a \in DOMAIN accounts, b \in DOMAIN accounts :
        /\ a # b
        /\ accounts[a].username = accounts[b].username
        /\ \A s \in Slots :
            /\ Succeeded(s, "register")
            /\ calls[s].data.username = accounts[a].username
        /\ calls[1].result.data.user_id # calls[2].result.data.user_id

\* C15: a login that has read the session of its device saves the refreshed
\* record at its next step whether or not the record still exists, and the
\* save re-creates a record deleted in between; so after a login and a logout
\* of one device have both reported success, the device can have a session.
C15_StaleSaveResurrects ==
    [][\A s \in Slots :
        (Steps(s, "login", "save_session") /\ calls[s].session # NoData) =>
            \A d \in {calls[s].data.device_id} :
                /\ d \in DOMAIN sessions'
                /\ sessions'[d].key = calls[s].session.key
                /\ sessions'[d].account = calls[s].session.account
                /\ sessions'[d].created_at = calls[s].session.created_at
                /\ calls'[s].result.code = 0
                /\ sessions'[d].token = calls'[s].result.data.token]_vars

C15_Witness ==
    \E s \in Slots, t \in Slots, d \in DOMAIN sessions :
        /\ Succeeded(s, "login")
        /\ calls[s].data.device_id = d
        /\ Succeeded(t, "logout")
        /\ calls[t].data.device_id = d
        /\ sessions[d].token = calls[s].result.data.token
        /\ sessions[d].key = calls[t].data.token.sig.k

\* the devices whose session record references an account that is not stored
Orphans == {d \in DOMAIN sessions : sessions[d].account \notin DOMAIN accounts}

\* C20 (as claimed): in every reachable state, under concurrent requests too,
\* every session record references an account record that exists.
C20_NoSessionOutlivesAccount == Orphans = {}

\* C20 (amended): delete_account never leaves a session record of the deleted
\* account behind; a session record referencing a missing account is written
\* only by the session save of a register or login that read the account
\* before it was deleted, and changes only by such a save.
C20_OrphanOnlyByStaleSave ==
    [][\A d \in Orphans' :
        \/ d \in Orphans /\ sessions'[d] = sessions[d]
        \/ \E s \in Slots :
            /\ Steps(s, "register", "save_session") \/ Steps(s, "login", "save_session")
            /\ calls[s].data.device_id = d
            /\ accounts' = accounts
            /\ calls'[s].result.code = 0]_vars

C20_Witness ==
    \E s \in Slots, d \in Orphans :
        /\ Succeeded(s, "login")
        /\ calls[s].data.device_id = d
        /\ sessions[d].account = calls[s].result.data.user_id
        /\ sessions[d].account \in DeletedIds

\* C22: a successful logout on device D deletes only D's session record:
\* every account record and the session record of every other device (of the
\* same account or of another) is unchanged, and every credential that
\* is_valid_on accepted on another device is still accepted.
C22_LogoutFrame ==
    [][Answered("Logged out successfully.") =>
        \A c \in SentCreds :
            Logout(c) =>
                /\ accounts' = accounts
                /\ DOMAIN sessions' = DOMAIN sessions \ {c.device_id}
                /\ \A e \in DOMAIN sessions \ {c.device_id} : sessions'[e] = sessions[e]
                /\ \A u \in ClientIds, t \in ClientTokens, e \in Devices \ {c.device_id} :
                        IsValidOn(Credentials(u, "alice01", t, e))
                            => IsValidOn(Credentials(u, "alice01", t, e))']_vars

C22_Witness ==
    /\ response # Idle
    /\ response.code = 0
    /\ response.message = "Logged out successfully."
    /\ \E e \in DOMAIN sessions, g \in handed, h \in handed :
        /\ g.user_id = sessions[e].account
        /\ g.token.payload.device_id \notin DOMAIN sessions
        /\ g.token.payload.account_id = sessions[e].account
        /\ IsValidOn(Credentials(h.user_id, h.username, h.token, e))

\* C21: once delete_account has succeeded for an account, no account record
\* with its id exists in any later state: an id the store has issued and
\* holds no record of never gets a record again, even when an update_profile
\* request that passed its credential check and read the account before the
\* delete saves afterwards.
C21_DeletedAccountStaysDeleted ==
    [][\A a \in DeletedIds : a \notin DOMAIN accounts']_vars

\* C23: register is all-or-nothing with respect to stored state: whenever a
\* register request is answered with a non-zero code (account already exists,
\* failed to create account, failed to create session), the account table and
\* the session table are what they were before the request.
C23_RegisterAllOrNothing ==
    [][(response = Idle /\ response' # Idle /\ response'.code # 0) =>
        \A username \in Usernames, password \in Passwords,
           phone \in Phones \cup {None}, email \in Emails \cup {None},
           device_id \in Devices :
            Register(username, password, phone, email, device_id) =>
                /\ accounts' = accounts
                /\ sessions' = sessions]_vars

====
